---- MODULE Spec2Model ----
(***************************************************************************)
(* A model of the bit-buffer library: the BitView bit engine, the          *)
(* BitStream cursor built on it, and the string helpers of utils.ts.       *)
(*                                                                         *)
(* Number encoding.  TLC integers are 32 bits wide and signed, so a        *)
(* JavaScript int32 / uint32 is modelled by its bit pattern: the set of    *)
(* the positions (0 = least significant .. 31) of its 1 bits.  A           *)
(* JavaScript number that is passed to or returned from the library is     *)
(* the record [neg, bits] that denotes                                     *)
(*        (sum of 2^i for i in bits) - (IF neg THEN 2^32 ELSE 0),          *)
(* which is a unique name for every integer in -2^32 .. 2^32 - 1.          *)
(* Bytes of the buffer, bit offsets, widths and indexes are plain          *)
(* integers.  A Uint8Array is a sequence; element k of the array is        *)
(* element k + 1 of the sequence.                                          *)
(***************************************************************************)
EXTENDS Integers, Sequences, FiniteSets, TLC

VARIABLES view, bigEndian, streams, last, nops

vars == <<view, bigEndian, streams, last, nops>>

-----------------------------------------------------------------------------
(* Bounds of the model. *)

\* Number of bytes of the ArrayBuffer the BitView is constructed over.
BufBytes == 9

\* Number of operations performed in one behaviour.
MaxOps == 2

-----------------------------------------------------------------------------
(* 32-bit integer arithmetic of JavaScript, on bit patterns. *)

W32 == 0..31

Min(a, b) == IF a < b THEN a ELSE b

\* The bit pattern of a non-negative integer below 2^31.
BitsOf(n) == {i \in 0..30 : (n \div (2^i)) % 2 = 1}

\* ToInt32 of a small integer literal of the code (0xFF, 1, ~0 = -1, ...).
I32(n) == IF n >= 0 THEN BitsOf(n) ELSE W32 \ BitsOf((-n) - 1)

\* The number a bit pattern denotes when it is an int32 (the result of a
\* bitwise operator) and when it is a uint32 (the result of >>> 0).
Int32Num(b) == [neg |-> 31 \in b, bits |-> b]
Uint32Num(b) == [neg |-> FALSE, bits |-> b]

\* ToInt32 of a number: its value modulo 2^32.
ToInt32(n) == n.bits

\* The small non-negative integer n as a number.
NumOf(n) == Uint32Num(BitsOf(n))

And(a, b) == a \cap b
Or(a, b) == a \cup b
Xor(a, b) == (a \ b) \cup (b \ a)
Not(a) == W32 \ a

\* a << k and a >> k (sign-propagating); the shift count is taken modulo 32.
Shl(a, k) == {i + (k % 32) : i \in a} \cap W32
Sar(a, k) == {i - (k % 32) : i \in {j \in a : j >= k % 32}}
                \cup (IF 31 \in a THEN (32 - (k % 32))..31 ELSE {})

\* ToInt32(a - 1) for an int32 a.
Dec(a) == IF a = {} THEN W32
          ELSE LET m == CHOOSE i \in a : \A j \in a : i <= j
               IN (a \ {m}) \cup (0..(m - 1))

\* The value stored by an assignment to an element of a Uint8Array: the low
\* eight bits of the int32.
ByteOf(b) ==
    LET f[i \in 0..8] == IF i = 8 THEN 0
                         ELSE (IF i \in b THEN 2^i ELSE 0) + f[i + 1]
    IN f[0]

-----------------------------------------------------------------------------
(* Results of an operation that can throw. *)

Ok(v) == [err |-> "none", val |-> v]
Throw(e) == [err |-> e, val |-> {}]

\* The value of r, or of other when r did not throw.
Else(r, other) == IF r.err # "none" THEN r ELSE other

-----------------------------------------------------------------------------
(* BitView *)

RECURSIVE getBitsLoop(_, _, _, _, _, _)
getBitsLoop(v, be, offset, bits, i, value) ==
    IF i >= bits THEN value
    ELSE LET remaining == bits - i
             bitOffset == offset % 8
             currentByte == I32(v[(offset \div 8) + 1])
             read == Min(remaining, 8 - bitOffset)
             mask == Not(Shl(I32(255), read))
             readBitsBE == And(Sar(currentByte, 8 - read - bitOffset), mask)
             readBitsLE == And(Sar(currentByte, bitOffset), mask)
             next == IF be THEN Or(Shl(value, read), readBitsBE)
                     ELSE Or(value, Shl(readBitsLE, i))
         IN getBitsLoop(v, be, offset + read, bits, i + read, next)

\* The return of getBits without the sign extension of a narrow signed read.
getBitsReturnNoSignExtension(value, bits, signed) ==
    IF signed THEN Int32Num(value) ELSE Uint32Num(value)

\* The return of getBits without the test bits !== 32.
getBitsReturnNoFullWidthTest(value, bits, signed) ==
    IF signed
    THEN IF And(value, Shl(I32(1), bits - 1)) # {}
         THEN Int32Num(Or(value, Xor(I32(-1), Dec(Shl(I32(1), bits)))))
         ELSE Int32Num(value)
    ELSE Uint32Num(value)

\* The end of getBits: the value returned for the bits the loop assembled.
getBitsReturn(value, bits, signed) ==
    IF signed
    THEN IF bits # 32 /\ And(value, Shl(I32(1), bits - 1)) # {}
         THEN Int32Num(Or(value, Xor(I32(-1), Dec(Shl(I32(1), bits)))))
         ELSE Int32Num(value)
    ELSE Uint32Num(value)

\* A getBits that takes the bits of a byte from its least-significant end
\* whatever bigEndian says.
getBitsLittleEndianOnly(v, be, offset, bits, signed) ==
    LET available == Len(v) * 8 - offset
    IN IF bits > available THEN Throw("OutOfRange")
       ELSE Ok(getBitsReturn(getBitsLoop(v, FALSE, offset, bits, 0, {}),
                             bits, signed))

getBits(v, be, offset, bits, signed) ==
    LET available == Len(v) * 8 - offset
    IN IF bits > available THEN Throw("OutOfRange")
       ELSE Ok(getBitsReturn(getBitsLoop(v, be, offset, bits, 0, {}),
                             bits, signed))

RECURSIVE setBitsLoop(_, _, _, _, _, _)
setBitsLoop(v, be, offset, value, bits, i) ==
    IF i >= bits THEN v
    ELSE LET remaining == bits - i
             bitOffset == offset % 8
             byteOffset == offset \div 8
             wrote == Min(remaining, 8 - bitOffset)
             old == I32(v[byteOffset + 1])
             \* big-endian branch
             maskBE == Not(Shl(Not(I32(0)), wrote))
             writeBitsBE == And(Sar(value, bits - i - wrote), maskBE)
             destShift == 8 - bitOffset - wrote
             destMaskBE == Not(Shl(maskBE, destShift))
             byteBE == Or(And(old, destMaskBE), Shl(writeBitsBE, destShift))
             \* little-endian branch
             maskLE == Not(Shl(I32(255), wrote))
             writeBitsLE == And(value, maskLE)
             destMaskLE == Not(Shl(maskLE, bitOffset))
             byteLE == Or(And(old, destMaskLE), Shl(writeBitsLE, bitOffset))
             nextView == [v EXCEPT ![byteOffset + 1] =
                             ByteOf(IF be THEN byteBE ELSE byteLE)]
             nextValue == IF be THEN value ELSE Sar(value, wrote)
         IN setBitsLoop(nextView, be, offset + wrote, nextValue, bits, i + wrote)

\* setBits with the bounds test off by one (>= for >).
setBitsBoundOffByOne(v, be, offset, value, bits) ==
    LET available == Len(v) * 8 - offset
    IN IF bits >= available THEN Throw("OutOfRange")
       ELSE Ok(setBitsLoop(v, be, offset, ToInt32(value), bits, 0))

\* setBits storing into a cleared first byte instead of keeping the bits of
\* that byte it does not address.
setBitsClearFirstByte(v, be, offset, value, bits) ==
    LET available == Len(v) * 8 - offset
    IN IF bits > available THEN Throw("OutOfRange")
       ELSE Ok(setBitsLoop([v EXCEPT ![(offset \div 8) + 1] = 0], be, offset,
                           ToInt32(value), bits, 0))

\* A setBits that fills a byte from its least-significant end whatever
\* bigEndian says.
setBitsLittleEndianOnly(v, be, offset, value, bits) ==
    LET available == Len(v) * 8 - offset
    IN IF bits > available THEN Throw("OutOfRange")
       ELSE Ok(setBitsLoop(v, FALSE, offset, ToInt32(value), bits, 0))

\* The result's val is the view after the call.
setBits(v, be, offset, value, bits) ==
    LET available == Len(v) * 8 - offset
    IN IF bits > available THEN Throw("OutOfRange")
       ELSE Ok(setBitsLoop(v, be, offset, ToInt32(value), bits, 0))

NonZero(r) == Else(r, Ok(r.val # NumOf(0)))

getBoolean(v, be, offset) == NonZero(getBits(v, be, offset, 1, FALSE))

getInt8(v, be, offset) == getBits(v, be, offset, 8, TRUE)
getInt16(v, be, offset) == getBits(v, be, offset, 16, TRUE)
getInt32(v, be, offset) == getBits(v, be, offset, 32, TRUE)

getUint8(v, be, offset) == getBits(v, be, offset, 8, FALSE)
getUint16(v, be, offset) == getBits(v, be, offset, 16, FALSE)
getUint32(v, be, offset) == getBits(v, be, offset, 32, FALSE)

\* A float is modelled by its IEEE-754 bit pattern: the scratch DataView only
\* reinterprets the bytes.  A float32 is [f32 |-> the 32-bit pattern]; a
\* float64 is [hi |-> bytes 0..3 of the scratch area, lo |-> bytes 4..7], each
\* read big-endian as the DataView does by default.
AsFloat32(r) == Else(r, Ok([f32 |-> ToInt32(r.val)]))

getFloat32(v, be, offset) == AsFloat32(getUint32(v, be, offset))

AsFloat64(r0, r4) ==
    Else(r0, Else(r4, Ok([hi |-> ToInt32(r0.val), lo |-> ToInt32(r4.val)])))

getFloat64(v, be, offset) ==
    AsFloat64(getUint32(v, be, offset), getUint32(v, be, offset + 32))

setBoolean(v, be, offset, value) ==
    setBits(v, be, offset, IF value THEN NumOf(1) ELSE NumOf(0), 1)

setInt8(v, be, offset, value) == setBits(v, be, offset, value, 8)
setInt16(v, be, offset, value) == setBits(v, be, offset, value, 16)
setInt32(v, be, offset, value) == setBits(v, be, offset, value, 32)

setUint8(v, be, offset, value) == setInt8(v, be, offset, value)
setUint16(v, be, offset, value) == setInt16(v, be, offset, value)
setUint32(v, be, offset, value) == setInt32(v, be, offset, value)

setFloat32(v, be, offset, value) ==
    setBits(v, be, offset, Uint32Num(value.f32), 32)

\* The second setBits of setFloat64, on the view w0 the first one left.
setFloat64Low(w0, be, offset, value) ==
    Else(w0, setBits(w0.val, be, offset, Uint32Num(value.lo), 32))

setFloat64(v, be, offset, value) ==
    setFloat64Low(setBits(v, be, offset, Uint32Num(value.hi), 32),
                  be, offset, value)

RECURSIVE getArrayBufferLoop(_, _, _, _, _, _)
getArrayBufferStore(v, be, offset, byteLength, i, buffer, r) ==
    Else(r, getArrayBufferLoop(v, be, offset, byteLength, i + 1,
                               Append(buffer, ByteOf(ToInt32(r.val)))))

getArrayBufferLoop(v, be, offset, byteLength, i, buffer) ==
    IF i >= byteLength THEN Ok(buffer)
    ELSE getArrayBufferStore(v, be, offset, byteLength, i, buffer,
                             getUint8(v, be, offset + (i * 8)))

getArrayBuffer(v, be, offset, byteLength) ==
    getArrayBufferLoop(v, be, offset, byteLength, 0, <<>>)

\* view[name](offset) and view[name](offset, value) of reader and writer.
Get(name, v, be, offset) ==
    CASE name = "getBoolean" -> getBoolean(v, be, offset)
      [] name = "getInt8" -> getInt8(v, be, offset)
      [] name = "getInt16" -> getInt16(v, be, offset)
      [] name = "getInt32" -> getInt32(v, be, offset)
      [] name = "getUint8" -> getUint8(v, be, offset)
      [] name = "getUint16" -> getUint16(v, be, offset)
      [] name = "getUint32" -> getUint32(v, be, offset)
      [] name = "getFloat32" -> getFloat32(v, be, offset)
      [] name = "getFloat64" -> getFloat64(v, be, offset)

Set(name, v, be, offset, value) ==
    CASE name = "setBoolean" -> setBoolean(v, be, offset, value)
      [] name = "setInt8" -> setInt8(v, be, offset, value)
      [] name = "setInt16" -> setInt16(v, be, offset, value)
      [] name = "setInt32" -> setInt32(v, be, offset, value)
      [] name = "setUint8" -> setUint8(v, be, offset, value)
      [] name = "setUint16" -> setUint16(v, be, offset, value)
      [] name = "setUint32" -> setUint32(v, be, offset, value)
      [] name = "setFloat32" -> setFloat32(v, be, offset, value)
      [] name = "setFloat64" -> setFloat64(v, be, offset, value)

-----------------------------------------------------------------------------
(* Inputs. *)

\* Bit patterns the values written are cut from.
Patterns == { {}, W32, {i \in W32 : i % 3 = 0 \/ i % 5 = 2} }

LowBits(w) == 0..(w - 1)

\* The values representable in w bits read unsigned, and read signed (two's
\* complement), cut from Patterns.
UnsignedValues(w) == {Uint32Num(p \cap LowBits(w)) : p \in Patterns}
SignedValues(w) ==
    {[neg |-> (w - 1) \in p,
      bits |-> IF (w - 1) \in p THEN (p \cap LowBits(w)) \cup (w..31)
               ELSE p \cap LowBits(w)] : p \in Patterns}

\* Values with bits above bit w - 1.
WideValues == {Int32Num(p) : p \in Patterns}

\* A 32-bit pattern from its two 16-bit halves.
Word(hi16, lo16) == Or(Shl(BitsOf(hi16), 16), BitsOf(lo16))

\* 1.0, 0.1 and -2.5 as doubles; 1.0 and -2.5 as floats.
Float64Values ==
    { [hi |-> Word(16368, 0), lo |-> {}],
      [hi |-> Word(16313, 39321), lo |-> Word(39321, 39322)],
      [hi |-> Word(49156, 0), lo |-> {}] }
Float32Values == { [f32 |-> Word(16256, 0)], [f32 |-> Word(49184, 0)] }

\* Contents of the ArrayBuffer handed to the constructor.
MixedView == [k \in 1..BufBytes |-> IF k % 4 = 3 THEN 0 ELSE (k * 89 + 64) % 256]

InitViews ==
    { [k \in 1..BufBytes |-> 0], [k \in 1..BufBytes |-> 255], MixedView }

\* Positions of the main stream when the operations start: as constructed,
\* and moved to an unaligned bit.
UnalignedIndex == 11
InitIndexes == {0, UnalignedIndex}

TotalBits == BufBytes * 8

StreamIds == {"main", "sub"}

NoStream == [exists |-> FALSE, _startIndex |-> 0, _index |-> 0, _length |-> 0]

-----------------------------------------------------------------------------
(* State.  view and bigEndian are the BitView (_view, bigEndian); streams   *)
(* holds the BitStreams over it: "main", constructed over the view, and     *)
(* "sub", the slice readBitStream returns.  last records the operation      *)
(* that led to the state: its name, the stream, the arguments, the error    *)
(* thrown ("none" when it returned), the value returned, and the view and   *)
(* the streams as they were before it.  The arguments and the value are    *)
(* kept under the name of the operation, so that two records are compared  *)
(* by name before the values, which differ in kind from one operation to   *)
(* the next, are.                                                           *)

Record(op, id, arg, err, val) ==
    [op |-> op, stream |-> id, arg |-> [k \in {op} |-> arg], err |-> err,
     val |-> [k \in {<<op, err>>} |-> val],
     preView |-> view, preStreams |-> streams]

\* The arguments of the last operation and the value it returned.
Arg == last.arg[last.op]
Val == last.val[<<last.op, last.err>>]

Init ==
    /\ view \in InitViews
    /\ bigEndian \in BOOLEAN
    /\ streams = [id \in StreamIds |->
                    IF id = "main"
                    THEN [exists |-> TRUE, _startIndex |-> 0, _index |-> 0,
                          _length |-> Len(view) * 8]
                    ELSE NoStream]
    /\ last = Record("new", "main", <<>>, "none", {})
    /\ nops = 0

\* A stream over a buffer of mixed content, at one of InitIndexes.
InitStream ==
    /\ view = MixedView
    /\ bigEndian \in BOOLEAN
    /\ \E i \in InitIndexes :
         streams = [id \in StreamIds |->
                      IF id = "main"
                      THEN [exists |-> TRUE, _startIndex |-> 0, _index |-> i,
                            _length |-> Len(view) * 8]
                      ELSE NoStream]
    /\ last = Record("new", "main", <<>>, "none", {})
    /\ nops = 0

-----------------------------------------------------------------------------
(* Calls on the BitView itself (stream.view.getBits(...), ...).  Each       *)
(* behaviour of SpecView applies one of them to the constructed view.       *)

Offsets == 0..(TotalBits + 1)
Widths == 1..32

ViewGetBits(offset, bits, signed) ==
    /\ LET r == getBits(view, bigEndian, offset, bits, signed)
       IN last' = Record("getBits", "none", <<offset, bits, signed>>, r.err, r.val)
    /\ nops' = nops + 1
    /\ UNCHANGED <<view, bigEndian, streams>>

ViewSetBits(offset, value, bits) ==
    /\ LET r == setBits(view, bigEndian, offset, value, bits)
       IN /\ view' = IF r.err = "none" THEN r.val ELSE view
          /\ last' = Record("setBits", "none", <<offset, value, bits>>, r.err, {})
    /\ nops' = nops + 1
    /\ UNCHANGED <<bigEndian, streams>>

ViewGetFloat64(offset) ==
    /\ LET r == getFloat64(view, bigEndian, offset)
       IN last' = Record("getFloat64", "none", <<offset>>, r.err, r.val)
    /\ nops' = nops + 1
    /\ UNCHANGED <<view, bigEndian, streams>>

ViewSetFloat64(offset, value) ==
    /\ LET r == setFloat64(view, bigEndian, offset, value)
       IN /\ view' = IF r.err = "none" THEN r.val ELSE view
          /\ last' = Record("setFloat64", "none", <<offset, value>>, r.err, {})
    /\ nops' = nops + 1
    /\ UNCHANGED <<bigEndian, streams>>

NextView ==
    \/ /\ last.op = "new"
       /\ \E o \in Offsets, w \in Widths, s \in BOOLEAN : ViewGetBits(o, w, s)
    \/ /\ last.op = "new"
       /\ \E o \in Offsets, w \in Widths :
            \E x \in UnsignedValues(w) \cup SignedValues(w) \cup WideValues :
               ViewSetBits(o, x, w)
    \/ /\ last.op = "new"
       /\ \E o \in Offsets : ViewGetFloat64(o)
    \/ /\ last.op = "new"
       /\ \E o \in Offsets, x \in Float64Values : ViewSetFloat64(o, x)

SpecView == Init /\ [][NextView]_vars

-----------------------------------------------------------------------------
(* BitStream.  A method is an operator from the environment it runs in     *)
(* (the view and the streams over it) to an outcome: the error thrown       *)
(* ("none" when it returned), the value returned, and the environment it    *)
(* left behind, which holds whatever was changed before a throw.            *)

Env == [view |-> view, streams |-> streams]

Out(err, val, e) == [err |-> err, val |-> val, env |-> e]

\* The public, window-relative properties.
index(s) == s._index - s._startIndex
length(s) == s._length - s._startIndex
bitsLeft(s) == s._length - s._index
\* get byteIndex: Math.ceil(this._index / 8).
byteIndex(s) == (s._index + 7) \div 8

Advance(e, id, size) == [e EXCEPT !.streams[id]._index = @ + size]

\* The end of a read: g is what the BitView returned or threw.
readDone(e, id, size, g) ==
    IF g.err # "none" THEN Out(g.err, {}, e)
    ELSE Out("none", g.val, Advance(e, id, size))

\* The end of a write that advances the stream even when the setter throws.
writeDoneAdvancesAlways(e, id, size, w) ==
    IF w.err # "none" THEN Out(w.err, {}, Advance(e, id, size))
    ELSE Out("none", {}, Advance([e EXCEPT !.view = w.val], id, size))

\* The end of a write: w is the view the BitView left, or what it threw.
writeDone(e, id, size, w) ==
    IF w.err # "none" THEN Out(w.err, {}, e)
    ELSE Out("none", {}, Advance([e EXCEPT !.view = w.val], id, size))

\* A reader whose test also rejects a read that ends exactly at _length.
readerInclusive(e, be, id, name, size) ==
    IF e.streams[id]._index + size >= e.streams[id]._length
    THEN Out("EndOfStream", {}, e)
    ELSE readDone(e, id, size, Get(name, e.view, be, e.streams[id]._index))

\* A reader without the test against _length.
readerUnchecked(e, be, id, name, size) ==
    readDone(e, id, size, Get(name, e.view, be, e.streams[id]._index))

reader(e, be, id, name, size) ==
    IF e.streams[id]._index + size > e.streams[id]._length
    THEN Out("EndOfStream", {}, e)
    ELSE readDone(e, id, size, Get(name, e.view, be, e.streams[id]._index))

\* A writer that addresses the view by the window-relative index.
writerRelative(e, be, id, name, size, value) ==
    writeDone(e, id, size, Set(name, e.view, be, index(e.streams[id]), value))

writer(e, be, id, name, size, value) ==
    writeDone(e, id, size, Set(name, e.view, be, e.streams[id]._index, value))

readBits(e, be, id, bits, signed) ==
    readDone(e, id, bits, getBits(e.view, be, e.streams[id]._index, bits, signed))

writeBits(e, be, id, value, bits) ==
    writeDone(e, id, bits, setBits(e.view, be, e.streams[id]._index, value, bits))

\* The typed methods: readBoolean = this.reader(`getBoolean`, 1), ...
Readers ==
    { [op |-> "readBoolean", name |-> "getBoolean", size |-> 1],
      [op |-> "readInt8", name |-> "getInt8", size |-> 8],
      [op |-> "readInt16", name |-> "getInt16", size |-> 16],
      [op |-> "readInt32", name |-> "getInt32", size |-> 32],
      [op |-> "readUint8", name |-> "getUint8", size |-> 8],
      [op |-> "readUint16", name |-> "getUint16", size |-> 16],
      [op |-> "readUint32", name |-> "getUint32", size |-> 32],
      [op |-> "readFloat32", name |-> "getFloat32", size |-> 32],
      [op |-> "readFloat64", name |-> "getFloat64", size |-> 64] }

Writers ==
    { [op |-> "writeBoolean", name |-> "setBoolean", size |-> 1],
      [op |-> "writeInt8", name |-> "setInt8", size |-> 8],
      [op |-> "writeInt16", name |-> "setInt16", size |-> 16],
      [op |-> "writeInt32", name |-> "setInt32", size |-> 32],
      [op |-> "writeUint8", name |-> "setUint8", size |-> 8],
      [op |-> "writeUint16", name |-> "setUint16", size |-> 16],
      [op |-> "writeUint32", name |-> "setUint32", size |-> 32],
      [op |-> "writeFloat32", name |-> "setFloat32", size |-> 32],
      [op |-> "writeFloat64", name |-> "setFloat64", size |-> 64] }

\* A readBitStream that assigns bitLength to _length, not to length.
readBitStreamAbsoluteLength(e, id, bitLength) ==
    LET this == e.streams[id]
        slice == [exists |-> TRUE,
                  _startIndex |-> this._index,
                  _index |-> this._index,
                  _length |-> bitLength]
    IN Out("none", "sub",
           [e EXCEPT !.streams = [@ EXCEPT ![id]._index = @ + bitLength,
                                           !["sub"] = slice]])

\* readBitStream of stream id; the slice it returns is kept as stream "sub".
readBitStream(e, id, bitLength) ==
    LET this == e.streams[id]
        slice == [exists |-> TRUE,
                  _startIndex |-> this._index,
                  _index |-> this._index,
                  _length |-> bitLength + this._index]
    IN Out("none", "sub",
           [e EXCEPT !.streams = [@ EXCEPT ![id]._index = @ + bitLength,
                                           !["sub"] = slice]])

\* The loop of writeBitStream.  c holds the destination's view and _index and
\* the source's view and _index; when the source stream is over the same
\* memory as the destination (shared), it reads what the loop has written,
\* through its own view: the first Len(c.srcView) bytes of that memory; and
\* when the source is the destination stream itself (c.self), readBits and
\* writeBits move the one _index.
RECURSIVE writeBitStreamLoop(_, _, _, _, _)
\* The same step with a writeBits that does not advance the destination.
writeBitStreamWriteInPlace(c1, be, srcBE, shared, len, bitsToWrite, w) ==
    IF w.err # "none" THEN [err |-> w.err, c |-> c1]
    ELSE writeBitStreamLoop([c1 EXCEPT !.view = w.val,
                                       !.srcIndex = IF c1.self THEN c1.index
                                                    ELSE @],
                            be, srcBE, shared, len - bitsToWrite)

\* this.writeBits(value, bitsToWrite) for the value r that stream.readBits
\* returned, the source advanced (c1), and then the rest of the loop.
writeBitStreamWrite(c1, be, srcBE, shared, len, bitsToWrite, w) ==
    IF w.err # "none" THEN [err |-> w.err, c |-> c1]
    ELSE writeBitStreamLoop([c1 EXCEPT !.view = w.val,
                                       !.index = @ + bitsToWrite,
                                       !.srcIndex = IF c1.self
                                                    THEN c1.index + bitsToWrite
                                                    ELSE @],
                            be, srcBE, shared, len - bitsToWrite)

\* The source advanced by stream.readBits, which is the destination's own
\* _index when the source is the destination.
AfterRead(c, bitsToWrite) ==
    [c EXCEPT !.srcIndex = @ + bitsToWrite,
              !.index = IF c.self THEN c.srcIndex + bitsToWrite ELSE @]

writeBitStreamRead(c, be, srcBE, shared, len, bitsToWrite, r) ==
    IF r.err # "none" THEN [err |-> r.err, c |-> c]
    ELSE writeBitStreamWrite(AfterRead(c, bitsToWrite),
                             be, srcBE, shared, len, bitsToWrite,
                             setBits(c.view, be, AfterRead(c, bitsToWrite).index,
                                     r.val, bitsToWrite))

writeBitStreamLoop(c, be, srcBE, shared, len) ==
    IF len <= 0 THEN [err |-> "none", c |-> c]
    ELSE writeBitStreamRead(c, be, srcBE, shared, len, Min(len, 32),
                            getBits(IF shared THEN SubSeq(c.view, 1, Len(c.srcView))
                                    ELSE c.srcView, srcBE,
                                    c.srcIndex, Min(len, 32), FALSE))

\* An argument that was left out of a call, NaN, and a number argument.
Undefined == [tag |-> "undefined", n |-> 0]
NaN == [tag |-> "NaN", n |-> 0]
JsNum(n) == [tag |-> "number", n |-> n]

\* this.writeBitStream(stream, length), stream a stream of the same view
\* (this one or another).
\* The streams as the loop of writeBitStream left them.
writeBitStreamDone(e, id, src, r) ==
    Out(r.err, {},
        [view |-> r.c.view,
         streams |-> [e.streams EXCEPT ![id]._index = r.c.index,
                                       ![src]._index = r.c.srcIndex]])

writeBitStream(e, be, id, src, len) ==
    writeBitStreamDone(e, id, src,
        writeBitStreamLoop([view |-> e.view,
                            index |-> e.streams[id]._index,
                            srcView |-> e.view,
                            srcIndex |-> e.streams[src]._index,
                            self |-> id = src],
                           be, be, TRUE,
                           IF len = Undefined THEN bitsLeft(e.streams[src])
                           ELSE len.n))

readArrayBuffer(e, be, id, byteLength) ==
    readDone(e, id, byteLength * 8,
             getArrayBuffer(e.view, be, e.streams[id]._index, byteLength))

\* A Buffer argument: the bytes of the ArrayBuffer under it (buffer), where in
\* them the Buffer starts (byteOffset) and how many bytes it has (length); own
\* says that the ArrayBuffer is the one under the stream's view, as for the
\* Buffer that the buffer getter returns, and then the bytes are the view's.
\* The bytes new BitView(source) addresses:
\* new Uint8Array(source.buffer, 0, source.length).
SourceView(e, buffer) ==
    IF buffer.own THEN SubSeq(e.view, 1, buffer.length)
    ELSE SubSeq(buffer.buffer, 1, buffer.length)

\* this.writeBitStream(new BitStream(buffer), byteLength * 8): the source is a
\* fresh stream at index 0 over a fresh, little-endian BitView of buffer.
writeArrayBufferDone(e, id, r) ==
    Out(r.err, {},
        [view |-> r.c.view,
         streams |-> [e.streams EXCEPT ![id]._index = r.c.index]])

writeArrayBuffer(e, be, id, buffer, byteLength) ==
    writeArrayBufferDone(e, id,
        writeBitStreamLoop([view |-> e.view,
                            index |-> e.streams[id]._index,
                            srcView |-> SourceView(e, buffer),
                            srcIndex |-> 0,
                            self |-> FALSE],
                           be, FALSE, buffer.own, byteLength * 8))

-----------------------------------------------------------------------------
(* utils.ts.  A string is the sequence of its UTF-16 code units. *)

\* The non-negative integer a bit pattern below 2^31 denotes.
IntOf(b) ==
    LET f[i \in 0..31] == IF i = 31 THEN 0
                          ELSE (IF i \in b THEN 2^i ELSE 0) + f[i + 1]
    IN f[0]

\* length - index, then Math.floor: NaN when an operand is undefined.
Sub(a, b) == IF a.tag = "number" /\ b.tag = "number" THEN JsNum(a.n - b.n)
             ELSE NaN
Floor(a) == a

\* i < bytes; false for NaN.
Lt(i, bytes) == bytes.tag = "number" /\ i < bytes.n

\* Boolean(bytes), and (bytes ?? 0) || other.
Truthy(bytes) == bytes.tag = "number" /\ bytes.n # 0
OrElse(bytes, other) == IF Truthy(bytes) THEN bytes.n ELSE other

IsCont(b) == b >= 128 /\ b <= 191

\* One step of the UTF-8 decoder at position k of chars: the number of bytes
\* of the sequence that starts there (0 when it is malformed: a stray or
\* missing continuation byte, an overlong form, a surrogate, a code point
\* above 0x10FFFF) and the code units it decodes to.
Utf8Step(chars, k) ==
    LET b0 == chars[k]
        has(n) == k + n <= Len(chars) /\ \A j \in 1..n : IsCont(chars[k + j])
        cp2 == (b0 - 192) * 64 + (chars[k + 1] - 128)
        cp3 == (b0 - 224) * 4096 + (chars[k + 1] - 128) * 64
                  + (chars[k + 2] - 128)
        cp4 == (b0 - 240) * 262144 + (chars[k + 1] - 128) * 4096
                  + (chars[k + 2] - 128) * 64 + (chars[k + 3] - 128)
    IN IF b0 < 128 THEN [n |-> 1, units |-> <<b0>>]
       ELSE IF b0 >= 194 /\ b0 <= 223 /\ has(1)
            THEN [n |-> 2, units |-> <<cp2>>]
       ELSE IF b0 >= 224 /\ b0 <= 239 /\ has(2) /\ cp3 >= 2048
                 /\ ~(cp3 >= 55296 /\ cp3 <= 57343)
            THEN [n |-> 3, units |-> <<cp3>>]
       ELSE IF b0 >= 240 /\ b0 <= 244 /\ has(3) /\ cp4 >= 65536
                 /\ cp4 <= 1114111
            THEN [n |-> 4, units |-> << 55296 + ((cp4 - 65536) \div 1024),
                                        56320 + ((cp4 - 65536) % 1024) >>]
       ELSE [n |-> 0, units |-> <<>>]

\* decodeURIComponent(escape(string)) for a string of code units below 256:
\* the strict UTF-8 decoding of those bytes, [ok |-> FALSE] where
\* decodeURIComponent throws URIError.
RECURSIVE Utf8Decode(_, _, _)
Utf8Decode(chars, k, acc) ==
    IF k > Len(chars) THEN [ok |-> TRUE, str |-> acc]
    ELSE LET st == Utf8Step(chars, k)
         IN IF st.n = 0 THEN [ok |-> FALSE, str |-> acc]
            ELSE Utf8Decode(chars, k + st.n, acc \o st.units)

RECURSIVE readStringLoop(_, _, _, _, _, _, _, _)
\* The body of the loop after c = stream.readUint8(), which returned or
\* threw r.
readStringChar(be, id, bytes, fixedLength, i, chars, append, r) ==
    IF r.err # "none" THEN Out(r.err, {}, r.env)
    ELSE IF r.val = NumOf(0) /\ ~fixedLength THEN Out("none", chars, r.env)
    ELSE readStringLoop(r.env, be, id, bytes, fixedLength, i + 1,
                        IF append /\ r.val # NumOf(0)
                        THEN Append(chars, ByteOf(ToInt32(r.val)))
                        ELSE chars,
                        append /\ r.val # NumOf(0))

readStringLoop(e, be, id, bytes, fixedLength, i, chars, append) ==
    IF ~Lt(i, bytes) THEN Out("none", chars, e)
    ELSE readStringChar(be, id, bytes, fixedLength, i, chars, append,
                        reader(e, be, id, "getUint8", 8))

\* The end of readString: the string of the chars read, decoded when utf8.
readStringReturn(utf8, r, d) ==
    IF r.err # "none" THEN r
    ELSE IF utf8 /\ d.ok THEN Out("none", d.str, r.env)
    ELSE r

readStringDecode(utf8, r) ==
    readStringReturn(utf8, r,
                     IF r.err = "none" /\ utf8 THEN Utf8Decode(r.val, 1, <<>>)
                     ELSE [ok |-> FALSE, str |-> <<>>])

readString(e, be, id, len, idx, utf8, bytes) ==
    IF bytes = JsNum(0) THEN Out("none", <<>>, e)
    ELSE readStringDecode(utf8,
             readStringLoop(e, be, id,
                            IF bytes = Undefined THEN Floor(Sub(len, idx))
                            ELSE bytes,
                            Truthy(bytes), 0, <<>>, TRUE))

RECURSIVE stringToByteArrayLoop(_, _, _)
stringToByteArrayLoop(str, i, b) ==
    IF i >= Len(str) THEN b
    ELSE LET unicode == I32(str[i + 1])
             x3f == I32(63)
             x80 == I32(128)
             low(k) == IntOf(Or(And(Sar(unicode, k), x3f), x80))
             top(k, tag) == IntOf(Or(Sar(unicode, k), I32(tag)))
         IN stringToByteArrayLoop(str, i + 1,
              IF str[i + 1] <= 127 THEN Append(b, str[i + 1])
              ELSE IF str[i + 1] <= 2047
                   THEN b \o << top(6, 192), low(0) >>
              ELSE IF str[i + 1] <= 65535
                   THEN b \o << top(12, 224), low(6), low(0) >>
              ELSE b \o << top(18, 240), low(12), low(6), low(0) >>)

stringToByteArray(str) == stringToByteArrayLoop(str, 0, <<>>)

readASCIIString(e, be, id, len, idx, bytes) ==
    readString(e, be, id, len, idx, FALSE, bytes)
readUTF8String(e, be, id, len, idx, bytes) ==
    readString(e, be, id, len, idx, TRUE, bytes)

\* for (i = 0; i < length; i++) stream.writeUint8(i < n ? codes[i] : 0x00)
RECURSIVE writeStringLoop(_, _, _, _, _, _)
writeStringNext(be, id, codes, len, i, w) ==
    IF w.err # "none" THEN w
    ELSE writeStringLoop(w.env, be, id, codes, len, i + 1)

writeStringLoop(e, be, id, codes, len, i) ==
    IF i >= len THEN Out("none", {}, e)
    ELSE writeStringNext(be, id, codes, len, i,
             writer(e, be, id, "setUint8", 8,
                    NumOf(IF i < Len(codes) THEN codes[i + 1] ELSE 0)))

writeASCIIString(e, be, id, string, bytes) ==
    writeStringLoop(e, be, id, string, OrElse(bytes, Len(string) + 1), 0)

writeUTF8String(e, be, id, string, bytes) ==
    LET byteArray == stringToByteArray(string)
    IN writeStringLoop(e, be, id, byteArray, OrElse(bytes, Len(byteArray) + 1), 0)

\* The methods of BitStream that call them.
streamReadASCIIString(e, be, id, bytes) ==
    readASCIIString(e, be, id, bytes, Undefined, Undefined)
streamReadUTF8String(e, be, id, bytes) ==
    readUTF8String(e, be, id, bytes, Undefined, Undefined)
streamWriteASCIIString(e, be, id, string, bytes) ==
    writeASCIIString(e, be, id, string, bytes)
streamWriteUTF8String(e, be, id, string, bytes) ==
    writeUTF8String(e, be, id, string, bytes)

-----------------------------------------------------------------------------
(* Operations on the streams.  Every behaviour of Spec performs at most     *)
(* MaxOps of them.                                                          *)

Mixed == {i \in W32 : i % 3 = 0 \/ i % 5 = 2}

WriteValues(name) ==
    CASE name = "setBoolean" -> BOOLEAN
      [] name = "setInt8" -> {Int32Num(I32(-2))}
      [] name = "setUint8" -> {NumOf(165)}
      [] name = "setInt16" -> {Int32Num(I32(-300))}
      [] name = "setUint16" -> {NumOf(258)}
      [] name = "setInt32" -> {Int32Num(Mixed \cup {31})}
      [] name = "setUint32" -> {Uint32Num(Mixed \cup {31})}
      [] name = "setFloat32" -> {[f32 |-> Word(16256, 0)]}
      [] name = "setFloat64" -> {[hi |-> Word(16368, 0), lo |-> {}],
                                 [hi |-> Word(16313, 39321),
                                  lo |-> Word(39321, 39322)]}

\* readBits(bits, signed) and writeBits(value, bits).
BitReads == {<<3, TRUE>>, <<32, FALSE>>}
BitWrites == {<<NumOf(5), 3>>, <<Uint32Num(Mixed \cup {31}), 32>>}
BitLengths == {5, 16, 36, TotalBits}
CopyLengths == {Undefined, JsNum(12), JsNum(35)}
\* writeBitStream(stream, length) as <<this, stream, length>>: every length
\* between the two streams, and a stream copied onto itself.
Copies ==
    {<<"main", "sub", n>> : n \in CopyLengths}
        \cup {<<"sub", "main", n>> : n \in CopyLengths}
        \cup {<<"main", "main", JsNum(12)>>, <<"sub", "sub", Undefined>>}
ByteLengths == {2, 5, BufBytes}
\* Buffers passed to writeArrayBuffer: one that is the whole of its own
\* ArrayBuffer, one that starts 8 bytes into a pool shared with other data,
\* and the Buffer of the stream itself (stream.buffer).
PlainBuffer ==
    [own |-> FALSE, buffer |-> <<1, 2, 3, 4, 5>>, byteOffset |-> 0, length |-> 5]
PooledBuffer ==
    [own |-> FALSE, buffer |-> <<47, 0, 0, 0, 0, 0, 0, 0, 1, 2, 3, 4, 5>>,
     byteOffset |-> 8, length |-> 5]
OwnBuffer == [own |-> TRUE, buffer |-> <<>>, byteOffset |-> 0, length |-> BufBytes]
\* The first 5 bytes of it (stream.buffer.subarray(0, 5)).
OwnPartBuffer == [own |-> TRUE, buffer |-> <<>>, byteOffset |-> 0, length |-> 5]
\* writeArrayBuffer(buffer, byteLength).
BufferWrites ==
    {<<PlainBuffer, 2>>, <<PlainBuffer, 5>>, <<PooledBuffer, 2>>,
     <<OwnBuffer, 5>>, <<OwnPartBuffer, 6>>}
ByteCounts == {Undefined, JsNum(0), JsNum(2)}
\* writeASCIIString(string, bytes): "ABC", the euro sign, and U+1F600 (the
\* surrogate pair D83D DE00).
StringWrites ==
    { <<(<<65, 66, 67>>), Undefined>>, <<(<<65, 66, 67>>), JsNum(0)>>,
      <<(<<65, 66, 67>>), JsNum(2)>>, <<(<<65, 66, 67>>), JsNum(4)>>,
      <<(<<8364>>), Undefined>>, <<(<<55357, 56832>>), Undefined>> }
NewLengths == {8, TotalBits + 64}
NewIndexes == {5}
NewByteIndexes == {1}

Apply(op, id, arg, o) ==
    /\ view' = o.env.view
    /\ streams' = o.env.streams
    /\ last' = Record(op, id, arg, o.err, o.val)
    /\ nops' = nops + 1
    /\ UNCHANGED bigEndian

TypedRead(id, r) ==
    /\ nops < MaxOps
    /\ streams[id].exists
    /\ Apply(r.op, id, <<>>, reader(Env, bigEndian, id, r.name, r.size))

TypedWrite(id, w, value) ==
    /\ nops < MaxOps
    /\ streams[id].exists
    /\ Apply(w.op, id, <<value>>, writer(Env, bigEndian, id, w.name, w.size, value))

ReadBits(id, bits, signed) ==
    /\ nops < MaxOps
    /\ streams[id].exists
    /\ Apply("readBits", id, <<bits, signed>>, readBits(Env, bigEndian, id, bits, signed))

WriteBits(id, value, bits) ==
    /\ nops < MaxOps
    /\ streams[id].exists
    /\ Apply("writeBits", id, <<value, bits>>, writeBits(Env, bigEndian, id, value, bits))

ReadBitStream(id, bitLength) ==
    /\ nops < MaxOps
    /\ streams[id].exists
    /\ Apply("readBitStream", id, <<bitLength>>, readBitStream(Env, id, bitLength))

WriteBitStream(id, src, len) ==
    /\ nops < MaxOps
    /\ streams[id].exists /\ streams[src].exists
    /\ Apply("writeBitStream", id, <<src, len>>,
             writeBitStream(Env, bigEndian, id, src, len))

ReadArrayBuffer(id, byteLength) ==
    /\ nops < MaxOps
    /\ streams[id].exists
    /\ Apply("readArrayBuffer", id, <<byteLength>>,
             readArrayBuffer(Env, bigEndian, id, byteLength))

WriteArrayBuffer(id, buffer, byteLength) ==
    /\ nops < MaxOps
    /\ streams[id].exists
    /\ Apply("writeArrayBuffer", id, <<buffer, byteLength>>,
             writeArrayBuffer(Env, bigEndian, id, buffer, byteLength))

ReadASCIIString(id, bytes) ==
    /\ nops < MaxOps
    /\ streams[id].exists
    /\ Apply("readASCIIString", id, <<bytes>>,
             streamReadASCIIString(Env, bigEndian, id, bytes))

ReadUTF8String(id, bytes) ==
    /\ nops < MaxOps
    /\ streams[id].exists
    /\ Apply("readUTF8String", id, <<bytes>>,
             streamReadUTF8String(Env, bigEndian, id, bytes))

\* The exported readASCIIString / readUTF8String of utils.ts called with all
\* their parameters: (stream, stream.length, stream.index, bytes).
UtilReadString(id, utf8, bytes) ==
    /\ nops < MaxOps
    /\ streams[id].exists
    /\ Apply("utils.readString", id, <<utf8, bytes>>,
             IF utf8
             THEN readUTF8String(Env, bigEndian, id, JsNum(length(streams[id])),
                                 JsNum(index(streams[id])), bytes)
             ELSE readASCIIString(Env, bigEndian, id, JsNum(length(streams[id])),
                                  JsNum(index(streams[id])), bytes))

WriteASCIIString(id, string, bytes) ==
    /\ nops < MaxOps
    /\ streams[id].exists
    /\ Apply("writeASCIIString", id, <<string, bytes>>,
             streamWriteASCIIString(Env, bigEndian, id, string, bytes))

WriteUTF8String(id, string, bytes) ==
    /\ nops < MaxOps
    /\ streams[id].exists
    /\ Apply("writeUTF8String", id, <<string, bytes>>,
             streamWriteUTF8String(Env, bigEndian, id, string, bytes))

\* The property setters.
SetLength(id, val) ==
    /\ nops < MaxOps
    /\ streams[id].exists
    /\ streams' = [streams EXCEPT ![id]._length = val + streams[id]._startIndex]
    /\ last' = Record("set length", id, <<val>>, "none", {})
    /\ nops' = nops + 1
    /\ UNCHANGED <<view, bigEndian>>

SetIndex(id, val) ==
    /\ nops < MaxOps
    /\ streams[id].exists
    /\ streams' = [streams EXCEPT ![id]._index = val + streams[id]._startIndex]
    /\ last' = Record("set index", id, <<val>>, "none", {})
    /\ nops' = nops + 1
    /\ UNCHANGED <<view, bigEndian>>

SetByteIndex(id, val) ==
    /\ nops < MaxOps
    /\ streams[id].exists
    /\ streams' = [streams EXCEPT ![id]._index = val * 8]
    /\ last' = Record("set byteIndex", id, <<val>>, "none", {})
    /\ nops' = nops + 1
    /\ UNCHANGED <<view, bigEndian>>

SetBigEndian(id, val) ==
    /\ nops < MaxOps
    /\ streams[id].exists
    /\ bigEndian' = val
    /\ last' = Record("set bigEndian", id, <<val>>, "none", {})
    /\ nops' = nops + 1
    /\ UNCHANGED <<view, streams>>

Next ==
    \/ \E id \in StreamIds, r \in Readers : TypedRead(id, r)
    \/ \E id \in StreamIds, w \in Writers :
         \E x \in WriteValues(w.name) : TypedWrite(id, w, x)
    \/ \E id \in StreamIds, a \in BitReads : ReadBits(id, a[1], a[2])
    \/ \E id \in StreamIds, a \in BitWrites : WriteBits(id, a[1], a[2])
    \/ \E n \in BitLengths : ReadBitStream("main", n)
    \/ \E a \in Copies : WriteBitStream(a[1], a[2], a[3])
    \/ \E id \in StreamIds, n \in ByteLengths : ReadArrayBuffer(id, n)
    \/ \E id \in StreamIds, a \in BufferWrites : WriteArrayBuffer(id, a[1], a[2])
    \/ \E id \in StreamIds, n \in ByteCounts : ReadASCIIString(id, n)
    \/ \E id \in StreamIds, n \in ByteCounts : ReadUTF8String(id, n)
    \/ \E id \in StreamIds, a \in StringWrites : WriteASCIIString(id, a[1], a[2])
    \/ \E id \in StreamIds, a \in StringWrites : WriteUTF8String(id, a[1], a[2])
    \/ \E id \in StreamIds, utf8 \in BOOLEAN, n \in {Undefined, JsNum(2)} :
         UtilReadString(id, utf8, n)
    \/ \E id \in StreamIds, n \in NewLengths : SetLength(id, n)
    \/ \E id \in StreamIds, n \in NewIndexes : SetIndex(id, n)
    \/ \E id \in StreamIds, n \in NewByteIndexes : SetByteIndex(id, n)
    \/ SetBigEndian("main", ~bigEndian)

Spec == InitStream /\ [][Next]_vars

-----------------------------------------------------------------------------
(* Properties of the BitView, checked under SpecView. *)

\* v is representable in w bits read unsigned / read signed.
IsUnsigned(v, w) == ~v.neg /\ v.bits \subseteq LowBits(w)
IsSigned(v, w) == IF v.neg THEN (w - 1)..31 \subseteq v.bits
                  ELSE v.bits \subseteq 0..(w - 2)

\* C1: after a successful setBits(o, v, w), for w in 1..32 and v representable
\* in w bits, getBits(o, w, signed) under the same endianness returns v: read
\* unsigned when v is in the unsigned range, read signed when v is in the
\* two's-complement range.
C1_RoundTrip ==
    (last.op = "setBits" /\ last.err = "none") =>
        LET o == Arg[1]
            v == Arg[2]
            w == Arg[3]
        IN /\ IsUnsigned(v, w) => getBits(view, bigEndian, o, w, FALSE) = Ok(v)
           /\ IsSigned(v, w) => getBits(view, bigEndian, o, w, TRUE) = Ok(v)

\* A negative value written 32 bits wide at an unaligned offset, big-endian,
\* and a narrow negative value written little-endian across a byte boundary.
C1_Witness ==
    /\ last.op = "setBits" /\ last.err = "none"
    /\ Arg[2].neg /\ IsSigned(Arg[2], Arg[3])
    /\ Arg[1] % 8 = 3
    /\ \/ bigEndian /\ Arg[3] = 32
       \/ ~bigEndian /\ Arg[3] = 11
    /\ view # last.preView

\* The bytes a call on the span [offset, offset + bits) addresses.
TouchedBytes(offset, bits) == {(offset + j) \div 8 : j \in 0..(bits - 1)}

\* C2: getBits and setBits throw the out-of-range error exactly when
\* offset + bits exceeds 8 * byteLength; a setBits that throws leaves the
\* buffer as it was; a call that returns addresses only bytes of the view.
C2_Bounds ==
    (last.op \in {"getBits", "setBits"}) =>
        LET o == Arg[1]
            w == IF last.op = "getBits" THEN Arg[2] ELSE Arg[3]
        IN /\ (last.err = "OutOfRange") <=> (o + w > 8 * Len(last.preView))
           /\ last.err \in {"none", "OutOfRange"}
           /\ last.err = "OutOfRange" => view = last.preView
           /\ last.err = "none" =>
                 /\ TouchedBytes(o, w) \subseteq 0..(Len(last.preView) - 1)
                 /\ Len(view) = Len(last.preView)

\* A setBits that ends on the last bit of the view has succeeded and changed
\* it, and one that would end one bit later has failed.
C2_Witness ==
    /\ last.op = "setBits"
    /\ \/ /\ last.err = "none"
          /\ Arg[1] + Arg[3] = TotalBits
          /\ view # last.preView
       \/ /\ last.err = "OutOfRange"
          /\ Arg[1] + Arg[3] = TotalBits + 1

-----------------------------------------------------------------------------
(* Properties of the BitStream, checked under Spec. *)

TypedReadOps == {r.op : r \in Readers}
TypedWriteOps == {w.op : w \in Writers}
StringReadOps == {"readASCIIString", "readUTF8String", "utils.readString"}
StringWriteOps == {"writeASCIIString", "writeUTF8String"}
WriteOps == TypedWriteOps \cup StringWriteOps
                \cup {"writeBits", "writeBitStream", "writeArrayBuffer"}
CursorOps == TypedReadOps \cup StringReadOps \cup WriteOps
                \cup {"readBits", "readBitStream", "readArrayBuffer"}

\* The bit width of a typed method.
SizeOf(op) == (CHOOSE t \in Readers \cup Writers : t.op = op).size

\* The stream the last operation was called on, before and after it.
Before == last.preStreams[last.stream]
After == streams[last.stream]

\* C3: a typed read or write that returns has advanced the stream's index by
\* exactly the width of the type (1, 8, 16, 32 or 64 bits), and one that
\* throws has left the index where it was.
C3_CursorAdvance ==
    (last.op \in TypedReadOps \cup TypedWriteOps) =>
        /\ last.err = "none" => After._index = Before._index + SizeOf(last.op)
        /\ last.err # "none" => After._index = Before._index
        /\ After._startIndex = Before._startIndex
        /\ SizeOf(last.op) \in {1, 8, 16, 32, 64}

\* A 16-bit read through the sub-stream, from an index that is not on a byte
\* boundary, has returned.
C3_Witness ==
    /\ last.op = "readInt16" /\ last.stream = "sub" /\ last.err = "none"
    /\ Before._index % 8 # 0
    /\ index(After) = 16

\* C4: a typed read of width k throws the end-of-stream error exactly when
\* _index + k exceeds _length, the value _length has when the read is made
\* (after any assignment to length); the read that throws it leaves the
\* stream's index and the buffer as they were.
C4_EndOfStream ==
    (last.op \in TypedReadOps) =>
        /\ (last.err = "EndOfStream")
              <=> (Before._index + SizeOf(last.op) > Before._length)
        /\ last.err = "EndOfStream" =>
              /\ streams = last.preStreams
              /\ view = last.preView

\* After length was assigned a value below the size of the buffer, a read on
\* the main stream that the buffer could serve has thrown end of stream.
C4_Witness ==
    /\ last.op \in TypedReadOps /\ last.stream = "main"
    /\ last.err = "EndOfStream"
    /\ Before._length < TotalBits
    /\ Before._index + SizeOf(last.op) <= TotalBits

\* The bit of the buffer at bit offset b, as the view addresses it.
Bit(v, b) == getBits(v, bigEndian, b, 1, FALSE)

\* The bits outside the window [lo, hi) are the same in view and preView.
SameOutside(lo, hi) ==
    \A b \in 0..(TotalBits - 1) :
        (b < lo \/ b >= hi) => Bit(view, b) = Bit(last.preView, b)

\* C5 as stated: a write through the sub-stream changes no bit outside the
\* sub-stream's window [start, start + n).
C5_Isolation ==
    (last.op \in WriteOps /\ last.stream = "sub") =>
        SameOutside(Before._startIndex, Before._length)

\* C5: a write through the sub-stream that starts at or after the start of
\* the window and leaves the index at or before its end changes no bit
\* outside the window; nothing stops a write that runs past the end.
C5_IsolationWithinWindow ==
    (/\ last.op \in WriteOps /\ last.stream = "sub"
     /\ Before._startIndex <= Before._index
     /\ After._index <= Before._length) =>
        SameOutside(Before._startIndex, Before._length)

\* A write through the sub-stream has filled its window up to the last bit
\* and changed the buffer.
C5_Witness ==
    /\ last.op \in WriteOps /\ last.stream = "sub" /\ last.err = "none"
    /\ Before._startIndex = UnalignedIndex
    /\ Before._index = Before._startIndex
    /\ After._index = Before._length
    /\ Before._length < TotalBits
    /\ view # last.preView

Other(id) == IF id = "main" THEN "sub" ELSE "main"

\* The source stream of the last writeBitStream, before and after it, and the
\* number of bits it was asked to copy.
SrcBefore == last.preStreams[Arg[1]]
SrcAfter == streams[Arg[1]]
CopyBits == IF Arg[2] = Undefined THEN bitsLeft(SrcBefore) ELSE Arg[2].n

\* readBitStream(n) has advanced the parent's index by n and returned a
\* stream over the same view whose window starts at the parent's previous
\* _index, with index 0, length n and bitsLeft n.
SliceCut ==
    last.op = "readBitStream" =>
        /\ last.err = "none"
        /\ After._index = Before._index + Arg[1]
        /\ After._length = Before._length
        /\ streams["sub"].exists
        /\ streams["sub"]._startIndex = Before._index
        /\ index(streams["sub"]) = 0
        /\ length(streams["sub"]) = Arg[1]
        /\ bitsLeft(streams["sub"]) = Arg[1]
        /\ view = last.preView

\* The last call was made on one of the two streams after the slice was cut.
\* (A readBitStream replaces the slice kept as "sub" by a new one, so it is
\* not compared with the one before.)
OnOneStream ==
    last.op \notin {"new", "readBitStream"} /\ last.stream \in StreamIds

\* C6 as stated: readBitStream(n) cuts the slice as described, and afterwards
\* no read or write on one of the two streams, writeBitStream included,
\* changes the other's index or length.
C6_SubStreamIsolated ==
    /\ SliceCut
    /\ OnOneStream =>
          streams[Other(last.stream)] = last.preStreams[Other(last.stream)]

\* C6: readBitStream(n) cuts the slice as described; afterwards a read, write
\* or property assignment on one of the two streams leaves the other's _index
\* and _length as they were, except a writeBitStream whose source is the other
\* stream: it leaves the other's window as it was and moves the other's _index
\* forward, by exactly the number of bits copied when it returns.
C6_SubStream ==
    /\ SliceCut
    /\ OnOneStream =>
          LET other == streams[Other(last.stream)]
              otherBefore == last.preStreams[Other(last.stream)]
          IN IF last.op = "writeBitStream" /\ Arg[1] # last.stream
             THEN /\ [other EXCEPT !._index = otherBefore._index] = otherBefore
                  /\ other._index >= otherBefore._index
                  /\ last.err = "none" =>
                        other._index = otherBefore._index
                                          + (IF CopyBits > 0 THEN CopyBits ELSE 0)
             ELSE other = otherBefore

\* A write through a sub-stream that was cut at an unaligned index has moved
\* the sub-stream, and the parent is still at the end of the window.
C6_Witness ==
    /\ last.op \in WriteOps \ {"writeBitStream"} /\ last.stream = "sub"
    /\ last.err = "none"
    /\ streams["sub"]._startIndex = UnalignedIndex
    /\ index(streams["sub"]) > 0
    /\ streams["main"]._index = streams["sub"]._length
    /\ view # last.preView

\* _startIndex <= _index <= _length for every stream of ss.
InWindow(ss) ==
    \A id \in StreamIds :
        ss[id].exists =>
            /\ ss[id]._startIndex <= ss[id]._index
            /\ ss[id]._index <= ss[id]._length

\* C7 as stated: the reads and writes of a stream keep every stream within
\* _startIndex <= _index <= _length.
C7_IndexWithinWindow ==
    (last.op \in CursorOps /\ InWindow(last.preStreams)) => InWindow(streams)

\* C7: the reads and writes of a stream never move an index backwards, so
\* they keep _startIndex <= _index; the typed reads and the string reads
\* keep _index <= _length; the slice readBitStream returns starts within
\* its window.  (Writes, readBits, readBitStream and readArrayBuffer are
\* tested against the buffer only and may leave _index past _length.)
C7_IndexMonotone ==
    (last.op \in CursorOps) =>
        /\ \A id \in StreamIds :
              (last.preStreams[id].exists
                  /\ ~(last.op = "readBitStream" /\ id = "sub")) =>
                 /\ streams[id]._index >= last.preStreams[id]._index
                 /\ streams[id]._startIndex = last.preStreams[id]._startIndex
                 /\ streams[id]._length = last.preStreams[id]._length
        /\ (last.op \in TypedReadOps \cup StringReadOps
               /\ Before._index <= Before._length) =>
              After._index <= After._length
        /\ last.op = "readBitStream" =>
              /\ streams["sub"]._startIndex = streams["sub"]._index
              /\ streams["sub"]._index <= streams["sub"]._length

\* A typed read through the sub-stream has ended exactly at the end of the
\* window.
C7_Witness ==
    /\ last.op \in TypedReadOps /\ last.stream = "sub" /\ last.err = "none"
    /\ After._index > Before._index
    /\ After._index = After._length
    /\ After._length < TotalBits

\* The byte of the buffer i bytes after bit offset o.
ByteAfter(o, i) == ByteOf(ToInt32(getUint8(last.preView, bigEndian, o + 8 * i).val))

\* The bytes among the first n after bit offset o that precede the first 0.
RECURSIVE UpToZero(_, _, _)
UpToZero(o, n, i) ==
    IF i >= n \/ ByteAfter(o, i) = 0 THEN <<>>
    ELSE <<ByteAfter(o, i)>> \o UpToZero(o, n, i + 1)

\* C8 as stated: stream.readASCIIString(N) and stream.readUTF8String(N), on a
\* stream with at least N bytes left, advance the stream by 8N bits whether
\* or not one of the N bytes is 0, and the ASCII read returns the characters
\* before the first 0.
C8_FixedLengthRead ==
    (/\ last.op \in {"readASCIIString", "readUTF8String"}
     /\ Arg[1].tag = "number" /\ Arg[1].n > 0
     /\ Before._startIndex <= Before._index
     /\ Before._length <= TotalBits
     /\ bitsLeft(Before) >= 8 * Arg[1].n) =>
        /\ last.err = "none"
        /\ After._index = Before._index + 8 * Arg[1].n
        /\ last.op = "readASCIIString" =>
              Val = UpToZero(Before._index, Arg[1].n, 0)

\* C10 as stated: a writeBitStream, writeArrayBuffer, readArrayBuffer, string
\* write or string read that throws leaves the buffer and the index of every
\* stream as they were before the call.
C10_AllOrNothing ==
    (/\ last.op \in StringReadOps \cup StringWriteOps
                       \cup {"writeBitStream", "writeArrayBuffer", "readArrayBuffer"}
     /\ last.err # "none") =>
        /\ view = last.preView
        /\ \A id \in StreamIds : streams[id]._index = last.preStreams[id]._index

-----------------------------------------------------------------------------
(* Properties of the 64-bit float accessors, checked under SpecView. *)

\* C9 as stated: setFloat64(o, x) puts the high word of x in bits [o, o + 32)
\* and the low word in bits [o + 32, o + 64), so that getFloat64(o) returns x.
C9_Float64RoundTrip ==
    (/\ last.op = "setFloat64" /\ last.err = "none"
     /\ Arg[1] + 64 <= TotalBits) =>
        /\ getUint32(view, bigEndian, Arg[1]) = Ok(Uint32Num(Arg[2].hi))
        /\ getUint32(view, bigEndian, Arg[1] + 32)
              = Ok(Uint32Num(Arg[2].lo))
        /\ getFloat64(view, bigEndian, Arg[1]) = Ok(Arg[2])

-----------------------------------------------------------------------------
(* Properties of the copying and string methods, checked under Spec. *)


\* C11: a writeBitStream(src, n) that returns, with the n bits at src's index
\* and the n bits at this stream's index not overlapping, has advanced both
\* indexes by n, and the n bits at this stream's old index are the n bits
\* src held; n is src.bitsLeft when it is omitted, and nothing is copied or
\* moved when n <= 0.
C11_WriteBitStream ==
    (/\ last.op = "writeBitStream" /\ last.err = "none"
     /\ \/ SrcBefore._index + CopyBits <= Before._index
        \/ Before._index + CopyBits <= SrcBefore._index
        \/ CopyBits <= 0) =>
        LET n == IF CopyBits > 0 THEN CopyBits ELSE 0
        IN /\ After._index = Before._index + n
           /\ SrcAfter._index = SrcBefore._index + n
           /\ \A j \in 0..(n - 1) :
                 Bit(view, Before._index + j) = Bit(last.preView, SrcBefore._index + j)
           /\ SameOutside(Before._index, Before._index + n)

\* More than 32 bits, and not a multiple of 32, have been copied from a slice
\* to the stream it was cut from, and the buffer has changed.
C11_Witness ==
    /\ last.op = "writeBitStream" /\ last.err = "none"
    /\ CopyBits > 32 /\ CopyBits % 32 # 0
    /\ Before._index >= SrcBefore._index + CopyBits
    /\ After._index = Before._index + CopyBits
    /\ view # last.preView

\* The byte of the buffer i bytes after bit offset o, as it is now.
ByteNow(o, i) == ByteOf(ToInt32(getUint8(view, bigEndian, o + 8 * i).val))
BytesNow(o, n) == [i \in 1..n |-> ByteNow(o, i - 1)]

\* The code points of a well-formed UTF-16 string: a high surrogate and the
\* low surrogate after it are one code point.
RECURSIVE CodePoints(_)
CodePoints(str) ==
    IF str = <<>> THEN <<>>
    ELSE IF Len(str) >= 2 /\ str[1] >= 55296 /\ str[1] <= 56319
              /\ str[2] >= 56320 /\ str[2] <= 57343
         THEN <<65536 + (str[1] - 55296) * 1024 + (str[2] - 56320)>>
                 \o CodePoints(SubSeq(str, 3, Len(str)))
    ELSE <<str[1]>> \o CodePoints(Tail(str))

\* The standard UTF-8 encoding of a code point and of a sequence of them.
Utf8Of(cp) ==
    IF cp <= 127 THEN <<cp>>
    ELSE IF cp <= 2047 THEN <<192 + (cp \div 64), 128 + (cp % 64)>>
    ELSE IF cp <= 65535
         THEN <<224 + (cp \div 4096), 128 + ((cp \div 64) % 64),
                128 + (cp % 64)>>
    ELSE <<240 + (cp \div 262144), 128 + ((cp \div 4096) % 64),
           128 + ((cp \div 64) % 64), 128 + (cp % 64)>>

RECURSIVE Utf8OfAll(_)
Utf8OfAll(cps) ==
    IF cps = <<>> THEN <<>> ELSE Utf8Of(Head(cps)) \o Utf8OfAll(Tail(cps))

StandardUtf8(str) == Utf8OfAll(CodePoints(str))

\* C12 as stated: writeUTF8String(text) with no byte count, when the buffer
\* has room for it, writes the standard UTF-8 encoding of text followed by
\* one 0x00 byte and advances the stream by (encoded length + 1) bytes.
C12_Utf8Write ==
    (/\ last.op = "writeUTF8String" /\ Arg[2] = Undefined
     /\ Before._index + 8 * (3 * Len(Arg[1]) + 1) <= TotalBits) =>
        /\ last.err = "none"
        /\ After._index = Before._index + 8 * (Len(StandardUtf8(Arg[1])) + 1)
        /\ BytesNow(Before._index, Len(StandardUtf8(Arg[1])) + 1)
              = StandardUtf8(Arg[1]) \o <<0>>

\* C12, for text in the basic multilingual plane (every code unit a code
\* point): the bytes written are the standard encoding and one 0x00.
C12_Utf8WriteBmp ==
    (/\ last.op = "writeUTF8String" /\ Arg[2] = Undefined
     /\ last.err = "none"
     /\ CodePoints(Arg[1]) = Arg[1]) =>
        /\ After._index = Before._index + 8 * (Len(StandardUtf8(Arg[1])) + 1)
        /\ BytesNow(Before._index, Len(StandardUtf8(Arg[1])) + 1)
              = StandardUtf8(Arg[1]) \o <<0>>

\* The bytes a string write encodes its text to: the low byte of each code
\* unit for writeASCIIString, stringToByteArray for writeUTF8String.
Encoded(op, str) ==
    IF op = "writeUTF8String" THEN stringToByteArray(str)
    ELSE [i \in 1..Len(str) |-> str[i] % 256]

\* The first n bytes of bytes, padded with 0 up to n.
Fitted(bytes, n) == [i \in 1..n |-> IF i <= Len(bytes) THEN bytes[i] ELSE 0]

\* The last string write has written exactly the n bytes of its text, cut or
\* padded, moved the index by 8n bits and changed nothing else.
WroteFixed(n) ==
    /\ last.err = "none"
    /\ After._index = Before._index + 8 * n
    /\ BytesNow(Before._index, n) = Fitted(Encoded(last.op, Arg[1]), n)
    /\ SameOutside(Before._index, Before._index + 8 * n)

\* C13 as stated: a string write with a byte count N >= 0, when the buffer
\* has room, writes exactly N bytes (the encoded text cut or zero-padded to
\* N bytes, no terminator beyond them) and advances the stream by 8N bits.
C13_FixedLengthWrite ==
    (/\ last.op \in StringWriteOps
     /\ Arg[2].tag = "number" /\ Arg[2].n >= 0
     /\ Before._index + 8 * (Len(Encoded(last.op, Arg[1])) + 1) <= TotalBits
     /\ Before._index + 8 * Arg[2].n <= TotalBits) =>
        WroteFixed(Arg[2].n)

\* C13, for a byte count N >= 1.
C13_FixedLengthWritePositive ==
    (/\ last.op \in StringWriteOps
     /\ Arg[2].tag = "number" /\ Arg[2].n >= 1
     /\ Before._index + 8 * Arg[2].n <= TotalBits) =>
        WroteFixed(Arg[2].n)

\* The whole bytes left in the window of the stream of the last operation.
BytesLeft == bitsLeft(Before) \div 8

\* C14 as stated: stream.readASCIIString() and stream.readUTF8String(), with
\* no byte count, consume bytes up to and including the first 0x00 and
\* return the bytes before it, or, when the window holds no 0x00, consume and
\* return all its remaining bytes without failing.
C14_TerminatedRead ==
    (/\ last.op \in {"readASCIIString", "readUTF8String"}
     /\ Arg[1] = Undefined
     /\ Before._startIndex <= Before._index
     /\ Before._index <= Before._length
     /\ Before._length <= TotalBits) =>
        LET chars == UpToZero(Before._index, BytesLeft, 0)
        IN /\ last.err = "none"
           /\ After._index = Before._index
                 + 8 * (IF Len(chars) < BytesLeft THEN Len(chars) + 1
                        ELSE BytesLeft)
           /\ last.op = "readASCIIString" => Val = chars

-----------------------------------------------------------------------------
(* Properties of getBits and setBits, checked under SpecView. *)

\* The buffer of the example: 0b10110010, 0, 0.
ExampleView == <<178, 0, 0>>

\* C15: an unsigned getBits of w bits that lies within one byte returns, in
\* big-endian mode, the w bits of the byte that start (offset mod 8) below
\* its most significant bit, going down, and in little-endian mode the w
\* bits that start (offset mod 8) above its least significant bit, going
\* up.  On the buffer 0b10110010, 0, 0, getBits(0, 4, false) is 11
\* big-endian and 2 little-endian.
C15_BitOrder ==
    /\ (/\ last.op = "getBits" /\ last.err = "none" /\ ~Arg[3]
        /\ (Arg[1] % 8) + Arg[2] <= 8) =>
          LET byte == last.preView[(Arg[1] \div 8) + 1]
              b == Arg[1] % 8
              w == Arg[2]
          IN Val = NumOf(IF bigEndian
                         THEN (byte \div 2^(8 - w - b)) % 2^w
                         ELSE (byte \div 2^b) % 2^w)
    /\ getBits(ExampleView, TRUE, 0, 4, FALSE) = Ok(NumOf(11))
    /\ getBits(ExampleView, FALSE, 0, 4, FALSE) = Ok(NumOf(2))

\* A big-endian read of a few bits from the middle of a byte has returned a
\* value that the same read in little-endian mode does not return.
C15_Witness ==
    /\ last.op = "getBits" /\ last.err = "none" /\ ~Arg[3]
    /\ bigEndian
    /\ Arg[1] % 8 = 2 /\ Arg[2] = 3
    /\ Val # NumOf(0)
    /\ getBits(last.preView, FALSE, Arg[1], Arg[2], FALSE) # Ok(Val)

\* The 16-bit value x with its two bytes swapped.
Swap16(x) == (x % 256) * 256 + (x \div 256)

\* 0x0102 written at offset 0 of two zero bytes, in mode be.
Written0102(be) == setBits(<<0, 0>>, be, 0, NumOf(258), 16).val

\* C16: a 16-bit value written by setBits at a byte-aligned offset and read
\* by getBits over the same two bytes in the other endianness comes back with
\* its two bytes swapped, so it differs from the value written whenever the
\* two bytes differ; read in the same endianness it comes back unchanged.
\* 0x0102 written little-endian and read big-endian is 0x0201.
C16_ByteSwap ==
    /\ (/\ last.op = "setBits" /\ last.err = "none"
        /\ Arg[3] = 16 /\ Arg[1] % 8 = 0
        /\ IsUnsigned(Arg[2], 16)) =>
          LET x == IntOf(Arg[2].bits)
              other == getBits(view, ~bigEndian, Arg[1], 16, FALSE)
          IN /\ other = Ok(NumOf(Swap16(x)))
             /\ (x % 256 # x \div 256) => other # Ok(Arg[2])
             /\ getBits(view, bigEndian, Arg[1], 16, FALSE) = Ok(Arg[2])
    /\ getBits(Written0102(FALSE), TRUE, 0, 16, FALSE) = Ok(NumOf(513))
    /\ getBits(Written0102(TRUE), FALSE, 0, 16, FALSE) = Ok(NumOf(513))
    /\ getBits(Written0102(TRUE), TRUE, 0, 16, FALSE) = Ok(NumOf(258))

\* A 16-bit value whose two bytes differ has been written big-endian at a
\* byte-aligned offset other than 0 and has changed the buffer.
C16_Witness ==
    /\ last.op = "setBits" /\ last.err = "none"
    /\ Arg[3] = 16 /\ Arg[1] % 8 = 0 /\ Arg[1] > 0
    /\ IsUnsigned(Arg[2], 16)
    /\ IntOf(Arg[2].bits) % 256 # IntOf(Arg[2].bits) \div 256
    /\ bigEndian
    /\ view # last.preView

-----------------------------------------------------------------------------
(* Properties of the typed writers and of byteIndex, checked under Spec. *)

\* The last typed write returned exactly when it fitted the buffer, whatever
\* the stream's _length, and left everything as it was when it threw.
WriteBoundedByBuffer ==
    /\ (last.err = "none") <=> (Before._index + SizeOf(last.op) <= TotalBits)
    /\ last.err \in {"none", "OutOfRange"}
    /\ last.err = "OutOfRange" =>
          /\ view = last.preView
          /\ streams = last.preStreams

\* C17 as stated: a typed write of width k at _index i returns whenever
\* i + k <= the size of the buffer in bits, even past the stream's _length,
\* and throws the out-of-range error, leaving buffer and index unchanged,
\* whenever i + k exceeds it.
C17_WriteBounds ==
    (last.op \in TypedWriteOps /\ Before._index >= 0) => WriteBoundedByBuffer

\* C17, for the typed writers other than writeFloat64.
C17_WriteBoundsNarrow ==
    (last.op \in TypedWriteOps \ {"writeFloat64"} /\ Before._index >= 0) =>
        WriteBoundedByBuffer

\* C18: for a getBits(o, w, signed) that returns, the unsigned result of the
\* same read lies in 0 .. 2^w - 1, the signed result in
\* -2^(w-1) .. 2^(w-1) - 1, and the signed result is the unsigned one when
\* bit w - 1 of it is clear and the unsigned one minus 2^w when it is set.
C18_Ranges ==
    (last.op = "getBits" /\ last.err = "none") =>
        LET w == Arg[2]
            u == getBits(last.preView, bigEndian, Arg[1], w, FALSE)
            sg == getBits(last.preView, bigEndian, Arg[1], w, TRUE)
        IN /\ Val = IF Arg[3] THEN sg.val ELSE u.val
           /\ u.err = "none" /\ sg.err = "none"
           /\ IsUnsigned(u.val, w)
           /\ IsSigned(sg.val, w)
           /\ sg.val.neg <=> ((w - 1) \in u.val.bits)
           /\ sg.val.bits = IF (w - 1) \in u.val.bits
                            THEN u.val.bits \cup (w..31)
                            ELSE u.val.bits

\* A signed read of all 32 bits, big-endian and from an offset inside a
\* byte, has returned a negative number other than -1.
C18_Witness ==
    /\ last.op = "getBits" /\ last.err = "none"
    /\ Arg[2] = 32 /\ Arg[3] /\ Arg[1] % 8 # 0
    /\ bigEndian
    /\ Val.neg /\ Val.bits # W32

-----------------------------------------------------------------------------
(* Properties of byteIndex, checked under Spec. *)

\* ceil(n / 8) for an integer n.
CeilBytes(n) == (n + 7) \div 8

\* C19: for every stream, a sub-stream whose window starts at a non-zero bit
\* offset included, byteIndex is ceil(index / 8) for the public index of the
\* stream, and an assignment byteIndex = b has made the public index 8 * b.
C19_ByteIndex ==
    /\ \A id \in StreamIds :
          streams[id].exists =>
              byteIndex(streams[id]) = CeilBytes(index(streams[id]))
    /\ (last.op = "set byteIndex") => index(After) = 8 * Arg[1]

\* The same for streams whose window starts at bit 0 of the buffer.
C19_ByteIndexFromZero ==
    /\ \A id \in StreamIds :
          (streams[id].exists /\ streams[id]._startIndex = 0) =>
              byteIndex(streams[id]) = CeilBytes(index(streams[id]))
    /\ (last.op = "set byteIndex" /\ Before._startIndex = 0) =>
          index(After) = 8 * Arg[1]

-----------------------------------------------------------------------------
(* The frame of setBits, checked under SpecView. *)

\* Spans [o2, o2 + w2), as <<o2, w2>>, that lie in the buffer and are disjoint
\* from the written span [o, o + w): every whole byte, the rest of the first
\* and of the last byte written, and the 32 bits before and after the written
\* span.  Together they cover every bit outside [o, o + w).
FrameSpans(o, w) ==
    LET whole == {<<8 * i, 8>> : i \in 0..(Len(view) - 1)}
        before == {<<o - k, k>> : k \in {o % 8, 32}}
        after == {<<o + w, k>> : k \in {(8 - ((o + w) % 8)) % 8, 32}}
    IN {sp \in whole \cup before \cup after :
           /\ sp[2] >= 1 /\ sp[1] >= 0 /\ sp[1] + sp[2] <= TotalBits
           /\ (sp[1] + sp[2] <= o \/ sp[1] >= o + w)}

\* C20: a setBits(o, v, w) that returns has changed only the w addressed
\* bits: the spans of the buffer disjoint from [o, o + w), spans sharing a
\* byte with the written one included, read the same under getBits (unsigned
\* and signed, same endianness) after the call as before, whatever bits v
\* has above bit w - 1.
C20_Frame ==
    (last.op = "setBits" /\ last.err = "none") =>
        \A sp \in FrameSpans(Arg[1], Arg[3]) : \A sg \in BOOLEAN :
            getBits(view, bigEndian, sp[1], sp[2], sg)
                = getBits(last.preView, bigEndian, sp[1], sp[2], sg)

\* A write strictly inside the bytes it touches, of a value with bits above
\* bit w - 1, has changed the buffer while the other bits of its first and
\* of its last byte were not all zero.
C20_Witness ==
    /\ last.op = "setBits" /\ last.err = "none"
    /\ Arg[1] % 8 # 0 /\ (Arg[1] + Arg[3]) % 8 # 0
    /\ \E b \in Arg[2].bits : b >= Arg[3]
    /\ view # last.preView
    /\ getBits(last.preView, bigEndian, Arg[1] - (Arg[1] % 8), Arg[1] % 8, FALSE)
          # Ok(NumOf(0))
    /\ getBits(last.preView, bigEndian, Arg[1] + Arg[3],
               8 - ((Arg[1] + Arg[3]) % 8), FALSE) # Ok(NumOf(0))

-----------------------------------------------------------------------------
(* The round trip of writeArrayBuffer and readArrayBuffer, checked under
   Spec. *)

\* readArrayBuffer(n) on the stream of the last call, from the position p the
\* stream had before that call.
ReadBack(n) ==
    readArrayBuffer([view |-> view,
                     streams |-> [streams EXCEPT
                                     ![last.stream]._index = Before._index]],
                    bigEndian, last.stream, n)

\* The bytes of a Buffer argument of the last call, as they were before it.
Contents(b) ==
    IF b.own THEN SubSeq(last.preView, 1, b.length)
    ELSE SubSeq(b.buffer, b.byteOffset + 1, b.byteOffset + b.length)

\* writeArrayBuffer(buf, n) from position p has returned and advanced the
\* stream by 8n bits, and readArrayBuffer(n) from p returns the first n bytes
\* of buf in their order and advances the stream by 8n bits.
RoundTrips(buf, n) ==
    /\ last.err = "none"
    /\ After._index = Before._index + 8 * n
    /\ ReadBack(n).err = "none"
    /\ ReadBack(n).val = SubSeq(Contents(buf), 1, n)
    /\ ReadBack(n).env.streams[last.stream]._index = Before._index + 8 * n

\* C21: writeArrayBuffer(buf, n) at position p, for n bytes that buf holds
\* and the buffer has room for from p, followed by readArrayBuffer(n) from p
\* returns the first n bytes of buf in their original order, for aligned and
\* unaligned p and both endianness settings of the destination; the write and
\* the read each advance the stream by exactly 8n bits.
C21_ArrayBufferRoundTrip ==
    (/\ last.op = "writeArrayBuffer"
     /\ Arg[2] <= Arg[1].length
     /\ Before._index >= 0
     /\ Before._index + 8 * Arg[2] <= TotalBits) =>
        RoundTrips(Arg[1], Arg[2])

\* The same for a little-endian destination and a Buffer that is the whole
\* of an ArrayBuffer of its own.
C21_ArrayBufferRoundTripLittleEndian ==
    (/\ last.op = "writeArrayBuffer"
     /\ ~bigEndian
     /\ ~Arg[1].own /\ Arg[1].byteOffset = 0
     /\ Arg[2] <= Arg[1].length
     /\ Before._index >= 0
     /\ Before._index + 8 * Arg[2] <= TotalBits) =>
        RoundTrips(Arg[1], Arg[2])

====
